---- MODULE Spec2Model ----
(***************************************************************************)
(* Patient-friendly discharge summary app (src/app.py): the passcode gate, *)
(* the upload normalizer, the summary generation handler and the chat      *)
(* handler, as a state machine over the Streamlit session state.           *)
(*                                                                         *)
(* One step of Spec is one run of the script, started by one widget        *)
(* event.  Text is a sequence of tokens: the characters "a", " " and "\n"  *)
(* for document text, and one opaque token for each fixed prompt, question *)
(* and reply.  An Optional value is a sequence of length 0 (None) or 1.    *)
(***************************************************************************)
EXTENDS Integers, Sequences, FiniteSets, TLC

VARIABLES
    PASSCODE,        \* st.secrets APP_PASSCODE: None or Some(text)
    OPENAI_API_KEY,  \* whether an API key was found
    authenticated,   \* st.session_state["authenticated"]
    login_error,     \* st.session_state["login_error"]
    summary_text,    \* st.session_state["summary_text"]
    summary_source,  \* st.session_state["summary_source"]
    chat_messages,   \* st.session_state["chat_messages"]
    widgets,         \* the widgets the last script run put on the page
    request,         \* the message list the last script run sent to the
                     \* completion service, <<>> if it sent none
    run,             \* what the last script run was given and what it did
    uploaded_file,   \* the normalizer's input  (SpecNormalize)
    extracted        \* the normalizer's result (SpecNormalize)

vars == <<PASSCODE, OPENAI_API_KEY, authenticated, login_error, summary_text,
          summary_source, chat_messages, widgets, request, run,
          uploaded_file, extracted>>

-----------------------------------------------------------------------------
(* Bounds *)

MaxLen == 2          \* longest document text typed, pasted or on a page
MaxParts == 2        \* most pages / paragraphs of a file given to the normalizer
MaxTurns == 4        \* the chat input is not used beyond this many turns

-----------------------------------------------------------------------------
(* Values *)

None == <<>>
Some(v) == <<v>>

TypedChar == {"a", " "}

\* The sequences over S of length at most n.
SeqsUpTo(S, n) == UNION {[1..k -> S] : k \in 0..n}

DocTexts == SeqsUpTo(TypedChar, MaxLen)

\* Python truthiness of a str: the empty string is falsy.
Truthy(text) == text # <<>>

\* Python truthiness of an Optional[str]: None and "" are falsy.
TruthyOpt(opt) == opt # None /\ opt[1] # <<>>

IsSpace(c) == c \in {" ", "\n"}

RECURSIVE LStrip(_)
LStrip(s) == IF s # <<>> /\ IsSpace(Head(s)) THEN LStrip(Tail(s)) ELSE s

RECURSIVE RStrip(_)
RStrip(s) ==
    IF s # <<>> /\ IsSpace(s[Len(s)]) THEN RStrip(SubSeq(s, 1, Len(s) - 1)) ELSE s

\* str.strip()
Strip(s) == RStrip(LStrip(s))

\* sep.join(parts)
RECURSIVE Join(_, _)
Join(sep, parts) ==
    IF parts = <<>> THEN <<>>
    ELSE IF Len(parts) = 1 THEN parts[1]
    ELSE parts[1] \o sep \o Join(sep, Tail(parts))

\* str.startswith(prefix)
StartsWith(s, prefix) ==
    Len(s) >= Len(prefix) /\ SubSeq(s, 1, Len(prefix)) = prefix

-----------------------------------------------------------------------------
(* Passcode gate *)

PasscodeInputs == {<<"pw">>, <<"bad">>, <<>>}
Passcodes == {None, Some(<<"pw">>)}

\* check_password._submit: the on_change callback of the passcode input.
SubmitWrongBranchBug(passcode, passcode_input) ==
    [authenticated |-> TRUE, login_error |-> <<>>]

Submit(passcode, passcode_input) ==
    IF passcode = None
    THEN [authenticated |-> TRUE, login_error |-> <<>>]
    ELSE IF passcode_input = passcode[1]
         THEN [authenticated |-> TRUE, login_error |-> <<>>]
         ELSE [authenticated |-> FALSE, login_error |-> <<"Incorrect passcode">>]

\* check_password's return value: False (login page) unless authenticated.
CheckPasswordOpenWhenUnset(passcode, auth) == auth \/ passcode = None

CheckPassword(passcode, auth) == auth

-----------------------------------------------------------------------------
(* Document normalizer: extract_text_from_file *)

\* uploaded_file.type, split at "/" into tokens.
MIME_PDF == <<"application", "/", "pdf">>
MIME_DOCX ==
    <<"application", "/", "vnd.openxmlformats-officedocument.wordprocessingml.document">>
MIME_MSWORD == <<"application", "/", "msword">>
MIME_TEXT_PLAIN == <<"text", "/", "plain">>
MIME_TEXT_CSV == <<"text", "/", "csv">>
MIME_PNG == <<"image", "/", "png">>
MIME_BARE_TEXT == <<"text">>

Mimes == {MIME_PDF, MIME_DOCX, MIME_MSWORD, MIME_TEXT_PLAIN, MIME_TEXT_CSV,
          MIME_PNG, MIME_BARE_TEXT}

\* What the bytes of an upload are.  parts is a sequence of Optional texts:
\*   kind "pdf":    per page, what page.extract_text() returns (None or a str)
\*   kind "docx":   per paragraph, its text
\*   kind "text":   one part, the UTF-8 decoding of the bytes
\*   kind "binary": bytes that are none of these (no parser accepts them)
Bodies(n) ==
    [kind : {"pdf"}, parts : SeqsUpTo({None} \cup {Some(t) : t \in DocTexts}, n)]
    \cup [kind : {"docx"}, parts : SeqsUpTo({Some(t) : t \in DocTexts}, n)]
    \cup [kind : {"text"}, parts : {<<Some(t)>> : t \in DocTexts}]
    \cup [kind : {"binary"}, parts : {<<>>}]

Files(n) == [type : Mimes, body : Bodies(n)]

\* page.extract_text() or ""
PageText(page) == IF page = None THEN <<>> ELSE page[1]

NoDocument == [text |-> None, invoked |-> "none", error |-> FALSE]

\* The normalizer has not run yet.
Pending == [text |-> None, invoked |-> "pending", error |-> FALSE]

\* The result of one extraction branch: the returned Optional[str], the
\* extraction the branch ran on the stream, and whether the except clause
\* caught a fault (st.error "Error reading file").
Extraction(which, ok, text) ==
    IF ok THEN [text |-> Some(text), invoked |-> which, error |-> FALSE]
    ELSE [text |-> None, invoked |-> which, error |-> TRUE]

\* The PDF branch with the "or ''" dropped: joining a None page raises.
ExtractPdfNonePageRaises(body) ==
    Extraction("pdf",
               body.kind = "pdf" /\ \A i \in 1..Len(body.parts) : body.parts[i] # None,
               Strip(Join(<<"\n", "\n">>,
                          [i \in 1..Len(body.parts) |-> PageText(body.parts[i])])))

\* The PDF branch; pdfplumber.open raises on bytes that are no PDF.
ExtractPdf(body) ==
    Extraction("pdf", body.kind = "pdf",
               Strip(Join(<<"\n", "\n">>,
                          [i \in 1..Len(body.parts) |-> PageText(body.parts[i])])))

\* The DOCX branch; docx.Document raises on bytes that are no DOCX.
ExtractDocx(body) ==
    Extraction("docx", body.kind = "docx",
               Strip(Join(<<"\n">>,
                          [i \in 1..Len(body.parts) |-> PageText(body.parts[i])])))

\* The text branch; decode("utf-8") raises on bytes that are no UTF-8 text.
ExtractPlainText(body) ==
    Extraction("text", body.kind = "text",
               Strip(IF body.parts = <<>> THEN <<>> ELSE PageText(body.parts[1])))

\* The dispatch with the final else missing: any other type is decoded as text.
ExtractTextFallsThrough(file) ==
    IF file = None THEN NoDocument
    ELSE LET mime == file[1].type
             body == file[1].body
         IN  IF mime = MIME_PDF THEN ExtractPdf(body)
             ELSE IF mime \in {MIME_DOCX, MIME_MSWORD} THEN ExtractDocx(body)
             ELSE ExtractPlainText(body)

ExtractTextFromFile(file) ==
    IF file = None THEN NoDocument
    ELSE LET mime == file[1].type
             body == file[1].body
         IN  IF mime = MIME_PDF THEN ExtractPdf(body)
             ELSE IF mime \in {MIME_DOCX, MIME_MSWORD} THEN ExtractDocx(body)
             ELSE IF StartsWith(mime, <<"text", "/">>) THEN ExtractPlainText(body)
             ELSE NoDocument

-----------------------------------------------------------------------------
(* Completion service calls *)

SYSTEM_PROMPT == <<"SYSTEM_PROMPT">>
CHAT_SYSTEM_PROMPT == <<"CHAT_SYSTEM_PROMPT">>
DischargePrefix == <<"Discharge summary:\n">>

Message(role, content) == [role |-> role, content |-> content]

\* The messages generate_summary sends.
GenerateSummaryRequest(discharge_text) ==
    << Message("system", SYSTEM_PROMPT),
       Message("user", DischargePrefix \o discharge_text) >>

\* generate_chat_response with the context message put after the history.
GenerateChatRequestContextLast(discharge_text, messages) ==
    << Message("system", CHAT_SYSTEM_PROMPT) >>
    \o messages
    \o << Message("user", DischargePrefix \o discharge_text) >>

\* The messages generate_chat_response sends.
GenerateChatRequest(discharge_text, messages) ==
    << Message("system", CHAT_SYSTEM_PROMPT),
       Message("user", DischargePrefix \o discharge_text) >>
    \o messages

\* What a call returns: None when it raises, else resp.choices[0].message.content
\* (a content of None is falsy like the empty text, and is modelled by it).
SummaryOutcomes == {None, Some(<<>>), Some(<<"S1">>)}
ChatOutcomes == {None, Some(<<"A1">>), Some(<<"A2">>)}
Questions == {<<"Q1">>, <<"Q2">>}

-----------------------------------------------------------------------------
(* Main UI: the handlers of the script, on the three session-state entries *)

SessionState(text, source, messages) ==
    [summary_text |-> text, summary_source |-> source, chat_messages |-> messages]

\* "Start new summary" (header) keeping the old turns.
StartNewSummaryHeaderKeepsChat(ss) ==
    SessionState(<<>>, <<>>, ss.chat_messages)

\* "Start new summary" in the header.
StartNewSummaryHeader(ss) == SessionState(<<>>, <<>>, <<>>)

\* "Start a new summary" in the sidebar.
StartNewSummarySidebar(ss) == SessionState(<<>>, <<>>, <<>>)

\* "Clear chat".
ClearChat(ss) == [ss EXCEPT !.chat_messages = <<>>]

\* The input widgets' values in one script run: the radio's choice, the
\* uploader's file, and what the user typed into the text area (None: nothing,
\* the text area shows its initial value).
DefaultInput == [method |-> "upload", file |-> None, edit |-> None]

\* Uploads are one-part files of every declared type; the text area is edited
\* over the uploads that are plain text files.
UploadFiles == Files(1)
EditedUploads == {f \in UploadFiles : f.type = MIME_TEXT_PLAIN /\ f.body.kind = "text"}

InputChoices ==
    [method : {"upload"}, file : {None} \cup {Some(f) : f \in UploadFiles},
     edit : {None}]
    \cup [method : {"upload"}, file : {Some(f) : f \in EditedUploads},
          edit : {Some(t) : t \in DocTexts}]
    \cup [method : {"paste"}, file : {None},
          edit : {None} \cup {Some(t) : t \in DocTexts}]

\* The input section: discharge_text, and whether the normalizer ran.
InputSection(inp) ==
    IF inp.method = "upload"
    THEN IF inp.file = None
         THEN [discharge_text |-> <<>>, normalized |-> FALSE]
         ELSE LET ex == ExtractTextFromFile(inp.file)
              IN  [discharge_text |->
                       IF TruthyOpt(ex.text)
                       THEN (IF inp.edit = None THEN ex.text[1] ELSE inp.edit[1])
                       ELSE <<>>,
                   normalized |-> TRUE]
    ELSE [discharge_text |-> IF inp.edit = None THEN <<>> ELSE inp.edit[1],
          normalized |-> FALSE]

\* The emptiness test without the strip.
IsEmptyInputUnstripped(discharge_text) == discharge_text = <<>>

\* not discharge_text.strip()
IsEmptyInput(discharge_text) == Strip(discharge_text) = <<>>

HandlerResult(ss, req, err) ==
    [summary_text |-> ss.summary_text, summary_source |-> ss.summary_source,
     chat_messages |-> ss.chat_messages, request |-> req, error |-> err]

\* The generate handler storing the source before it calls the service.
GenerateHandlerSourceFirst(ss, discharge_text, outcome) ==
    LET text == Strip(discharge_text)
        req == GenerateSummaryRequest(text)
    IN  IF outcome = None
        THEN HandlerResult([ss EXCEPT !.summary_source = text], req, TRUE)
        ELSE HandlerResult(SessionState(outcome[1], text, <<>>), req, FALSE)

\* The generate button's else branch: call the service, store the result.
GenerateHandler(ss, discharge_text, outcome) ==
    LET text == Strip(discharge_text)
        req == GenerateSummaryRequest(text)
    IN  IF outcome = None
        THEN HandlerResult(ss, req, TRUE)
        ELSE HandlerResult(SessionState(outcome[1], text, <<>>), req, FALSE)

\* The chat handler answering a failed call with an apology turn.
ChatHandlerApologises(ss, user_prompt, outcome) ==
    LET asked == Append(ss.chat_messages, Message("user", user_prompt))
        req == GenerateChatRequest(ss.summary_source, asked)
        reply == IF outcome = None THEN <<"Sorry">> ELSE outcome[1]
    IN  HandlerResult(
            [ss EXCEPT !.chat_messages = Append(asked, Message("assistant", reply))],
            req, outcome = None)

\* The chat handler appending the user turn only once the call has returned.
ChatHandlerLateUserTurn(ss, user_prompt, outcome) ==
    LET asked == Append(ss.chat_messages, Message("user", user_prompt))
        req == GenerateChatRequest(ss.summary_source, asked)
    IN  IF outcome = None
        THEN HandlerResult(ss, req, TRUE)
        ELSE HandlerResult(
                 [ss EXCEPT !.chat_messages =
                      ss.chat_messages
                      \o << Message("assistant", outcome[1]),
                            Message("user", user_prompt) >>],
                 req, FALSE)

\* The chat input handler: append the question, call the service with the
\* stored source and the appended list, append the reply unless the call raised.
ChatHandler(ss, user_prompt, outcome) ==
    LET asked == Append(ss.chat_messages, Message("user", user_prompt))
        req == GenerateChatRequest(ss.summary_source, asked)
    IN  IF outcome = None
        THEN HandlerResult([ss EXCEPT !.chat_messages = asked], req, TRUE)
        ELSE HandlerResult(
                 [ss EXCEPT !.chat_messages =
                      Append(asked, Message("assistant", outcome[1]))],
                 req, FALSE)

\* What one script run was given and did.
RunLog(trigger, auth) ==
    [trigger |-> trigger,        \* the widget event that started the run
     authenticated |-> auth,     \* session_state["authenticated"] when it started
     passcode_input |-> None,    \* the passcode submitted, if one was
     normalized |-> FALSE,       \* extract_text_from_file ran on an upload
     clicked |-> FALSE,          \* the generate button returned True
     rejected |-> FALSE,         \* "Please provide some discharge text first."
     summary_call |-> FALSE,     \* generate_summary was called
     chat_call |-> FALSE,        \* generate_chat_response was called
     error |-> FALSE,            \* the service call raised
     discharge_text |-> <<>>,    \* discharge_text at the generate button
     prompt |-> <<>>,            \* user_prompt
     reply |-> None]             \* what the service call returned

\* The header: "Start new summary" is there when a summary is stored.
HeaderSection(ss0, trigger) ==
    IF Truthy(ss0.summary_text) /\ trigger = "start_new_header"
    THEN StartNewSummaryHeader(ss0) ELSE ss0

\* The sidebar below "Log out": "Start a new summary".
SidebarSection(ss1, trigger) ==
    IF Truthy(ss1.summary_text) /\ trigger = "start_new_sidebar"
    THEN StartNewSummarySidebar(ss1) ELSE ss1

\* The input section and the generate button, shown while no summary is stored.
GenerateSection(ss2, trigger, inp, outcome) ==
    LET show_input == ~Truthy(ss2.summary_text)
        input == IF show_input THEN InputSection(inp)
                 ELSE [discharge_text |-> <<>>, normalized |-> FALSE]
        generate_clicked == show_input /\ trigger = "generate"
        rejected == generate_clicked /\ IsEmptyInput(input.discharge_text)
        summary_call == generate_clicked /\ ~rejected
    IN  [result |-> IF summary_call
                    THEN GenerateHandler(ss2, input.discharge_text, outcome)
                    ELSE HandlerResult(ss2, <<>>, FALSE),
         show_input |-> show_input,
         normalized |-> input.normalized,
         clicked |-> generate_clicked,
         rejected |-> rejected,
         summary_call |-> summary_call,
         discharge_text |-> IF generate_clicked THEN input.discharge_text ELSE <<>>]

\* The summary and chat section, shown while a summary is stored.
ChatSection(ss3, trigger, user_prompt, outcome) ==
    LET show_chat == Truthy(ss3.summary_text)
        chat_call == show_chat /\ trigger = "chat_input"
    IN  [result |-> IF chat_call
                    THEN ChatHandler(ss3, user_prompt, outcome)
                    ELSE IF show_chat /\ trigger = "clear_chat"
                    THEN HandlerResult(ClearChat(ss3), <<>>, FALSE)
                    ELSE HandlerResult(ss3, <<>>, FALSE),
         show_chat |-> show_chat,
         chat_call |-> chat_call]

\* The end of a run of the main UI: the session state, the widgets the run
\* rendered, the request it sent and its log.
MainResult(ss0, ss1, gen, chat, trigger, auth, user_prompt, outcome) ==
    [ss |-> SessionState(chat.result.summary_text, chat.result.summary_source,
                         chat.result.chat_messages),
     widgets |->
         {"log_out"}
         \cup (IF Truthy(ss0.summary_text) THEN {"start_new_header"} ELSE {})
         \cup (IF Truthy(ss1.summary_text) THEN {"start_new_sidebar"} ELSE {})
         \cup (IF gen.show_input THEN {"input", "generate"} ELSE {})
         \cup (IF chat.show_chat THEN {"clear_chat", "chat_input"} ELSE {}),
     request |-> IF gen.summary_call THEN gen.result.request ELSE chat.result.request,
     log |-> [RunLog(trigger, auth) EXCEPT
                 !.normalized = gen.normalized,
                 !.clicked = gen.clicked,
                 !.rejected = gen.rejected,
                 !.summary_call = gen.summary_call,
                 !.chat_call = chat.chat_call,
                 !.error = gen.result.error \/ chat.result.error,
                 !.discharge_text = gen.discharge_text,
                 !.prompt = IF chat.chat_call THEN user_prompt ELSE <<>>,
                 !.reply = IF gen.summary_call \/ chat.chat_call THEN outcome
                           ELSE None]]

MainFromGenerate(ss0, ss1, gen, trigger, auth, user_prompt, outcome) ==
    MainResult(ss0, ss1, gen,
               ChatSection(SessionState(gen.result.summary_text,
                                        gen.result.summary_source,
                                        gen.result.chat_messages),
                           trigger, user_prompt, outcome),
               trigger, auth, user_prompt, outcome)

MainFromSidebar(ss0, ss1, trigger, auth, inp, user_prompt, outcome) ==
    MainFromGenerate(ss0, ss1,
                     GenerateSection(SidebarSection(ss1, trigger), trigger, inp, outcome),
                     trigger, auth, user_prompt, outcome)

\* The script below the passcode gate, from the session-state defaults to the end.
MainUI(ss0, trigger, auth, inp, user_prompt, outcome) ==
    MainFromSidebar(ss0, HeaderSection(ss0, trigger), trigger, auth, inp,
                    user_prompt, outcome)

\* One run of the script, top to bottom, with session_state["authenticated"]
\* and ["login_error"] as the callbacks left them.
ScriptRun(trigger, auth, lerr, pass_in, inp, user_prompt, outcome) ==
    LET ss0 == SessionState(summary_text, summary_source, chat_messages)
        main == MainUI(ss0, trigger, auth, inp, user_prompt, outcome)
    IN  /\ authenticated' = auth
        /\ login_error' = lerr
        /\ IF ~OPENAI_API_KEY
           THEN /\ widgets' = {}
                /\ request' = <<>>
                /\ run' = [RunLog(trigger, auth) EXCEPT !.passcode_input = pass_in]
                /\ UNCHANGED <<summary_text, summary_source, chat_messages>>
           ELSE IF ~CheckPassword(PASSCODE, auth)
           THEN /\ widgets' = {"passcode_input"}
                /\ request' = <<>>
                /\ run' = [RunLog(trigger, auth) EXCEPT !.passcode_input = pass_in]
                /\ UNCHANGED <<summary_text, summary_source, chat_messages>>
           ELSE /\ summary_text' = main.ss.summary_text
                /\ summary_source' = main.ss.summary_source
                /\ chat_messages' = main.ss.chat_messages
                /\ widgets' = main.widgets
                /\ request' = main.request
                /\ run' = [main.log EXCEPT !.passcode_input = pass_in]
        /\ UNCHANGED <<PASSCODE, OPENAI_API_KEY, uploaded_file, extracted>>

\* The input widgets' values a run can see: the defaults unless the last run
\* rendered the input section.
InputsAvailable == IF "input" \in widgets THEN InputChoices ELSE {DefaultInput}

-----------------------------------------------------------------------------
(* Actions: one per widget event *)

\* The user submits the passcode input: _submit runs, then the script.
SubmitPasscode ==
    /\ "passcode_input" \in widgets
    /\ \E passcode_input \in PasscodeInputs :
           LET s == Submit(PASSCODE, passcode_input)
           IN  ScriptRun("passcode_input", s.authenticated, s.login_error,
                         Some(passcode_input), DefaultInput, <<>>, None)

\* "Log out": authenticated is cleared and the script is rerun at once.
LogOut ==
    /\ "log_out" \in widgets
    /\ ScriptRun("log_out", FALSE, login_error, None, DefaultInput, <<>>, None)

StartNewHeaderClick ==
    /\ "start_new_header" \in widgets
    /\ ScriptRun("start_new_header", authenticated, login_error, None,
                 DefaultInput, <<>>, None)

StartNewSidebarClick ==
    /\ "start_new_sidebar" \in widgets
    /\ ScriptRun("start_new_sidebar", authenticated, login_error, None,
                 DefaultInput, <<>>, None)

\* A rerun without a button: the user changed the radio, the upload or the text.
Rerun ==
    \E inp \in InputsAvailable :
        ScriptRun("none", authenticated, login_error, None, inp, <<>>, None)

GenerateClick ==
    /\ "generate" \in widgets
    /\ \E inp \in InputsAvailable, outcome \in SummaryOutcomes :
           ScriptRun("generate", authenticated, login_error, None, inp, <<>>, outcome)

ClearChatClick ==
    /\ "clear_chat" \in widgets
    /\ ScriptRun("clear_chat", authenticated, login_error, None,
                 DefaultInput, <<>>, None)

AskQuestion ==
    /\ "chat_input" \in widgets
    /\ Len(chat_messages) + 2 <= MaxTurns
    /\ \E user_prompt \in Questions, outcome \in ChatOutcomes :
           ScriptRun("chat_input", authenticated, login_error, None,
                     DefaultInput, user_prompt, outcome)

\* The state after the first run of a new session: the session-state defaults,
\* and the login page unless no API key was found.
Init ==
    /\ PASSCODE \in Passcodes
    /\ OPENAI_API_KEY \in BOOLEAN
    /\ authenticated = FALSE
    /\ login_error = <<>>
    /\ summary_text = <<>>
    /\ summary_source = <<>>
    /\ chat_messages = <<>>
    /\ widgets = IF OPENAI_API_KEY THEN {"passcode_input"} ELSE {}
    /\ request = <<>>
    /\ run = RunLog("none", FALSE)
    /\ uploaded_file = None
    /\ extracted = Pending

Next ==
    \/ SubmitPasscode
    \/ LogOut
    \/ StartNewHeaderClick
    \/ StartNewSidebarClick
    \/ Rerun
    \/ GenerateClick
    \/ ClearChatClick
    \/ AskQuestion

Spec == Init /\ [][Next]_vars

-----------------------------------------------------------------------------
(* The normalizer alone: extract_text_from_file applied to one upload *)

InitNormalize ==
    /\ uploaded_file \in {None} \cup {Some(f) : f \in Files(MaxParts)}
    /\ extracted = Pending
    /\ PASSCODE = None
    /\ OPENAI_API_KEY = TRUE
    /\ authenticated = FALSE
    /\ login_error = <<>>
    /\ summary_text = <<>>
    /\ summary_source = <<>>
    /\ chat_messages = <<>>
    /\ widgets = {}
    /\ request = <<>>
    /\ run = RunLog("none", FALSE)

Normalize ==
    /\ extracted = Pending
    /\ extracted' = ExtractTextFromFile(uploaded_file)
    /\ UNCHANGED <<PASSCODE, OPENAI_API_KEY, authenticated, login_error,
                   summary_text, summary_source, chat_messages, widgets,
                   request, run, uploaded_file>>

NextNormalize == Normalize

SpecNormalize == InitNormalize /\ [][NextNormalize]_vars

-----------------------------------------------------------------------------
(* Properties *)

UserTurn(content) == Message("user", content)
AssistantTurn(content) == Message("assistant", content)

\* C1: every Q&A call sends exactly: the chat system policy message, one
\* context message carrying the stored document text, the turns committed
\* before the call in their order, and the new question as the last message.
C1_RequestOrder ==
    [][run'.chat_call =>
          request' = << Message("system", CHAT_SYSTEM_PROMPT),
                        Message("user", DischargePrefix \o summary_source) >>
                     \o chat_messages
                     \o << UserTurn(run'.prompt) >>]_vars

\* Prior turns User "Q1", Assistant "A1", and the new question "Q2".
C1_Witness ==
    /\ run.chat_call
    /\ Len(request) = 5
    /\ request[3] = UserTurn(<<"Q1">>)
    /\ request[4] = AssistantTurn(<<"A1">>)
    /\ request[5] = UserTurn(<<"Q2">>)

\* C2: when the service fails during a Q&A call, the history afterwards is
\* the history before, or that plus the User turn of the question just asked;
\* no Assistant turn is added and the earlier turns keep their place.
C2_FailureKeepsHistory ==
    [][run'.chat_call /\ run'.error =>
          /\ \/ chat_messages' = chat_messages
             \/ chat_messages' = Append(chat_messages, UserTurn(run'.prompt))
          /\ SubSeq(chat_messages', 1, Len(chat_messages)) = chat_messages
          /\ \A i \in (Len(chat_messages) + 1)..Len(chat_messages') :
                 chat_messages'[i].role # "assistant"]_vars

\* A failed question after one answered question.
C2_Witness ==
    /\ run.chat_call
    /\ run.error
    /\ Len(chat_messages) = 3
    /\ chat_messages[2].role = "assistant"
    /\ chat_messages[3] = UserTurn(run.prompt)

\* C3: when a Q&A call succeeds, the history is the history before plus
\* exactly the User turn of the question and then the Assistant turn of the
\* returned answer.
C3_SuccessAppendsTwo ==
    [][run'.chat_call /\ ~run'.error =>
          chat_messages' = chat_messages
                           \o << UserTurn(run'.prompt),
                                 AssistantTurn(run'.reply[1]) >>]_vars

\* A second answered question.
C3_Witness ==
    /\ run.chat_call
    /\ ~run.error
    /\ Len(chat_messages) = 4
    /\ chat_messages[4] = AssistantTurn(run.reply[1])

\* C4: a summary generation whose service call fails leaves summary, source
\* and history as they were; one that succeeds sets the summary to the result,
\* the source to the stripped input and empties the history, the request having
\* carried that source; and no other run changes summary or source except by
\* clearing both.
C4_GenerationAtomic ==
    [][/\ run'.summary_call /\ run'.error =>
              UNCHANGED <<summary_text, summary_source, chat_messages>>
       /\ run'.summary_call /\ ~run'.error =>
              /\ summary_text' = run'.reply[1]
              /\ summary_source' = Strip(run'.discharge_text)
              /\ chat_messages' = <<>>
              /\ request' = GenerateSummaryRequest(summary_source')
       /\ ~run'.summary_call =>
              \/ UNCHANGED <<summary_text, summary_source>>
              \/ summary_text' = <<>> /\ summary_source' = <<>>]_vars

\* A failed generation for another text while a source is stored.
C4_Witness ==
    /\ run.summary_call
    /\ run.error
    /\ summary_source # <<>>
    /\ summary_source # Strip(run.discharge_text)

\* C5: no request carries an empty document text; a generate click whose
\* input is empty or only whitespace is rejected and sends no request; and
\* whenever the chat input is on the page the stored source is non-empty.
C5_NoEmptyDocument ==
    /\ request # <<>> =>
           /\ Len(request) >= 2
           /\ SubSeq(request[2].content, 1, 1) = DischargePrefix
           /\ Len(request[2].content) > 1
    /\ run.clicked /\ (\A i \in 1..Len(run.discharge_text) :
                           run.discharge_text[i] \in {" ", "\n"}) =>
           /\ run.rejected
           /\ ~run.summary_call
           /\ request = <<>>
    /\ "chat_input" \in widgets => summary_source # <<>>

\* A whitespace-only input rejected.
C5_Witness ==
    /\ run.clicked
    /\ run.rejected
    /\ run.discharge_text # <<>>
    /\ request = <<>>

\* C6: a script run that starts with authenticated false normalizes no file
\* and calls the service neither for a summary nor for an answer, and a
\* passcode that differs from the configured one never leaves authenticated true.
C6_GateClosed ==
    /\ [](~run.authenticated =>
              /\ ~run.normalized
              /\ ~run.summary_call
              /\ ~run.chat_call
              /\ request = <<>>)
    /\ [][/\ run'.passcode_input # None
          /\ PASSCODE # None
          /\ run'.passcode_input # PASSCODE
          => ~authenticated']_vars

\* A wrong passcode after a log-out, with a summary still stored.
C6_Witness ==
    /\ PASSCODE # None
    /\ run.passcode_input = Some(<<"bad">>)
    /\ ~authenticated
    /\ ~run.authenticated
    /\ Truthy(summary_text)
    /\ chat_messages # <<>>

\* C7: the history is empty right after every successful generation and after
\* every "start new summary"; it is empty whenever the stored source changes,
\* and a turn is only added by a Q&A call made against the stored source.
C7_ClearedOnAdoption ==
    [][/\ run'.summary_call /\ ~run'.error => chat_messages' = <<>>
       /\ run'.trigger \in {"start_new_header", "start_new_sidebar"} =>
              chat_messages' = <<>>
       /\ summary_source' # summary_source => chat_messages' = <<>>
       /\ Len(chat_messages') > Len(chat_messages) =>
              /\ run'.chat_call
              /\ summary_source' = summary_source
              /\ request'[2] = Message("user", DischargePrefix \o summary_source')]_vars

\* The header's "Start new summary" was clicked.
C7_Witness ==
    /\ run.trigger = "start_new_header"
    /\ run.authenticated
    /\ chat_messages = <<>>
    /\ summary_source = <<>>
    /\ summary_text = <<>>

IsUnsupportedType(mime) ==
    /\ mime # MIME_PDF
    /\ mime # MIME_DOCX
    /\ mime # MIME_MSWORD
    /\ ~(Len(mime) >= 2 /\ mime[1] = "text" /\ mime[2] = "/")

\* C8: for a declared type that is not PDF, not a Word type and does not
\* start with "text/", normalization returns no document and runs none of the
\* extractions on the stream.
C8_UnsupportedType ==
    (/\ extracted # Pending
     /\ uploaded_file # None
     /\ IsUnsupportedType(uploaded_file[1].type))
    => /\ extracted.text = None
       /\ extracted.invoked = "none"
       /\ ~extracted.error

\* A readable text file declared as image/png.
C8_Witness ==
    /\ extracted # Pending
    /\ uploaded_file # None
    /\ uploaded_file[1].type = MIME_PNG
    /\ uploaded_file[1].body = [kind |-> "text", parts |-> << Some(<<"a">>) >>]
    /\ extracted.text = None

IsParsedPdf ==
    /\ extracted # Pending
    /\ uploaded_file # None
    /\ uploaded_file[1].type = MIME_PDF
    /\ uploaded_file[1].body.kind = "pdf"

Pages == uploaded_file[1].body.parts

RECURSIVE JoinedPages(_)
JoinedPages(pages) ==
    IF pages = <<>> THEN <<>>
    ELSE (IF Head(pages) = None THEN <<>> ELSE Head(pages)[1])
         \o (IF Len(pages) > 1 THEN <<"\n", "\n">> ELSE <<>>)
         \o JoinedPages(Tail(pages))

\* C9 as stated: a 2-page PDF whose second page has no text normalizes to
\* exactly the first page's text.
C9_ExactlyFirstPage ==
    (/\ IsParsedPdf
     /\ Len(Pages) = 2
     /\ Pages[1] # None
     /\ Pages[2] = None)
    => extracted.text = Some(Pages[1][1])

\* C9 amended: for a PDF, a page without text counts as the empty string and
\* is no error; the result is the page texts in order joined by a blank line
\* and stripped, so with an empty second page it is the first page's text
\* stripped of leading and trailing whitespace.
C9_JoinedAndStripped ==
    IsParsedPdf =>
        /\ ~extracted.error
        /\ extracted.text = Some(Strip(JoinedPages(Pages)))
        /\ (Len(Pages) = 2 /\ Pages[1] # None /\ Pages[2] = None) =>
               extracted.text = Some(Strip(Pages[1][1]))

\* Two pages, the first "a " and the second without text.
C9_Witness ==
    /\ IsParsedPdf
    /\ Pages = << Some(<<"a", " ">>), None >>
    /\ extracted.text = Some(<<"a">>)
    /\ ~extracted.error

\* C10 as stated: the history alternates roles starting with User.
C10_StrictAlternation ==
    /\ chat_messages # <<>> => chat_messages[1].role = "user"
    /\ \A i \in 1..(Len(chat_messages) - 1) :
           chat_messages[i].role # chat_messages[i + 1].role

\* C10 amended: the first turn, if any, is a User turn and every Assistant
\* turn directly follows a User turn; two User turns are adjacent after a
\* question whose service call failed.
C10_AssistantFollowsUser ==
    /\ chat_messages # <<>> => chat_messages[1].role = "user"
    /\ \A i \in 1..Len(chat_messages) :
           /\ chat_messages[i].role \in {"user", "assistant"}
           /\ chat_messages[i].role = "assistant" =>
                  i > 1 /\ chat_messages[i - 1].role = "user"

\* A failed question followed by an answered one.
C10_Witness ==
    /\ Len(chat_messages) >= 3
    /\ chat_messages[1].role = "user"
    /\ chat_messages[2].role = "user"
    /\ chat_messages[3].role = "assistant"

====
